---- MODULE Spec2Model ----
(***************************************************************************)
(* UploadWizard: the configuration merge of includes/Config.php and the    *)
(* license markup of resources/uw.LicenseGroup.js.                         *)
(*                                                                         *)
(* A PHP value is a record [t, s, a]: t is gettype() ("string" or          *)
(* "array"; "error" stands for a thrown TypeError), s the scalar, a the    *)
(* array's entries in insertion order, each [k |-> key, v |-> value].      *)
(* A PHP array key is an integer or a non-numeric string (PHP casts a      *)
(* numeric string key such as "5" to the integer 5 when the array is       *)
(* built): [int, n, s].                                                    *)
(*                                                                         *)
(* siteConfig is a history variable: $wgUploadWizardConfig as it was       *)
(* before the first getConfig call. lastCall is a history variable: the    *)
(* argument of the latest getConfig call, or "setUrlSetting".              *)
(*                                                                         *)
(* A JavaScript string is the sequence of its characters; undefined is a   *)
(* record [defined |-> FALSE, v |-> <<>>].                                 *)
(*                                                                         *)
(* order is a history variable: the selected licenses in the order in      *)
(* which they were put into the selection (by a click, by typing, or as    *)
(* listed in setValue's argument).                                         *)
(***************************************************************************)
EXTENDS Integers, Sequences, FiniteSets, TLC

VARIABLES
    array, array1, newArray, mpc,
    wgUploadWizardConfig, mergedConfig, urlConfig, ret, lastCall, siteConfig,
    config, type, selected, customInputs, result, wikiText, lastOp, order

mergeVars  == <<array, array1, newArray, mpc>>
configVars == <<wgUploadWizardConfig, mergedConfig, urlConfig, ret, lastCall, siteConfig>>
licenseVars == <<config, type, selected, customInputs, result, wikiText, lastOp, order>>
vars == <<mergeVars, configVars, licenseVars>>

\* ------------------------------------------------------------ PHP values

StrKey(s) == [int |-> FALSE, n |-> 0, s |-> s]
IntKey(n) == [int |-> TRUE, n |-> n, s |-> ""]
Scalar(x) == [t |-> "string", s |-> x, a |-> <<>>]
Arr(es)   == [t |-> "array", s |-> "", a |-> es]
TypeError == [t |-> "error", s |-> "", a |-> <<>>]
Entry(k, v) == [k |-> k, v |-> v]
NoValue   == [t |-> "unset", s |-> "", a |-> <<>>]

\* array_keys( $arr ), in order
array_keys(arr) == [i \in 1..Len(arr.a) |-> arr.a[i].k]

array_key_exists(key, arr) == \E i \in 1..Len(arr.a) : arr.a[i].k = key

\* $arr[$key] for a key that exists
Get(arr, key) == arr.a[CHOOSE i \in 1..Len(arr.a) : arr.a[i].k = key].v

\* $arr[$key] = $value: in place when the key exists, appended otherwise
SetEntries(es, key, val) ==
    IF \E i \in 1..Len(es) : es[i].k = key
    THEN [i \in 1..Len(es) |-> IF es[i].k = key THEN Entry(key, val) ELSE es[i]]
    ELSE Append(es, Entry(key, val))

\* array_diff_key( $a, $b ): the entries of $a whose key $b lacks, keys kept
array_diff_key(a, b) ==
    Arr(SelectSeq(a.a, LAMBDA e : ~array_key_exists(e.k, b)))

\* array_merge( $a, $b ): string keys are kept (a later one overwrites in
\* place), integer keys are renumbered 0, 1, 2, ... in order of appearance
RECURSIVE MergeInto(_, _, _)
MergeInto(acc, es, next) ==
    IF es = <<>> THEN acc
    ELSE LET e == Head(es) IN
         IF e.k.int
         THEN MergeInto(Append(acc, Entry(IntKey(next), e.v)), Tail(es), next + 1)
         ELSE MergeInto(SetEntries(acc, e.k, e.v), Tail(es), next)

array_merge(a, b) == Arr(MergeInto(<<>>, a.a \o b.a, 0))

\* array_replace_recursive( $arr, $replacements ): keys kept; where both
\* values are arrays they are replaced recursively, otherwise the
\* replacement's value is taken
RECURSIVE ReplaceInto(_, _)
ReplaceInto(es, rs) ==
    IF rs = <<>> THEN es
    ELSE LET r == Head(rs)
             old == IF \E i \in 1..Len(es) : es[i].k = r.k
                    THEN Get(Arr(es), r.k) ELSE NoValue
             new == IF old.t = "array" /\ r.v.t = "array"
                    THEN Arr(ReplaceInto(old.a, r.v.a)) ELSE r.v
         IN ReplaceInto(SetEntries(es, r.k, new), Tail(rs))

array_replace_recursive_swapped(arr, replacements) ==
    Arr(ReplaceInto(replacements.a, arr.a))

array_replace_recursive(arr, replacements) ==
    Arr(ReplaceInto(arr.a, replacements.a))

\* ------------------------------------------------------------ Config.php

isAssoc(arr) == \E i \in 1..Len(arr.a) : ~arr.a[i].k.int

\* array_key_exists() and array_diff_key() throw a TypeError when $array1
\* is not an array, which happens when the recursion meets a scalar in
\* $array1 at a key where $array holds an associative array.
RECURSIVE arrayReplaceSanely(_, _)
arrayReplaceSanely(arr, arr1) ==
    IF arr1.t # "array" THEN TypeError
    ELSE LET valueOf(e) ==
                 IF array_key_exists(e.k, arr1)
                 THEN IF e.v.t = "array" /\ isAssoc(e.v)
                      THEN arrayReplaceSanely(e.v, Get(arr1, e.k))
                      ELSE Get(arr1, e.k)
                 ELSE e.v
             new == [i \in 1..Len(arr.a) |-> Entry(arr.a[i].k, valueOf(arr.a[i]))]
         IN IF \E i \in 1..Len(new) : new[i].v.t = "error"
            THEN TypeError
            ELSE array_merge(Arr(new), array_diff_key(arr1, arr))

\* the license group's variables while only Config.php runs
LicenseIdle ==
    /\ config = <<>>
    /\ type = ""
    /\ selected = <<>>
    /\ customInputs = <<>>
    /\ result = <<>>
    /\ wikiText = <<>>
    /\ lastOp = <<>>
    /\ order = <<>>

\* ------------------------------------------- inputs of arrayReplaceSanely

MaxLen == 2

KA == StrKey("a")
KB == StrKey("b")
K1 == IntKey(1)
Keys == {KA, KB, K1}

Sx == Scalar("x")
Sy == Scalar("y")
\* positional (integer-indexed) sequences: [] and [ 'y', 'x' ]
L0 == Arr(<<>>)
L2 == Arr(<<Entry(IntKey(0), Sy), Entry(IntKey(1), Sx)>>)
\* associative arrays: [ 'a' => 'x', 1 => 'y' ], [ 'b' => 'y', 'a' => [ 'b' => 'x' ] ],
\* [ 'a' => [ 'a' => 'y' ] ]
A1 == Arr(<<Entry(KA, Sx), Entry(K1, Sy)>>)
A2 == Arr(<<Entry(KB, Sy), Entry(KA, Arr(<<Entry(KB, Sx)>>))>>)
A3 == Arr(<<Entry(KA, Arr(<<Entry(KA, Sy)>>))>>)
Values == {Sx, Sy, L0, L2, A1, A2, A3}

DistinctKeys(es) == \A i, j \in 1..Len(es) : i # j => es[i].k # es[j].k

EntrySeqs(n) == UNION {[1..m -> [k : Keys, v : Values]] : m \in 0..n}

\* configuration trees: mappings (empty, or with at least one string key)
Trees == {Arr(es) : es \in {x \in EntrySeqs(MaxLen) : DistinctKeys(x)
                                 /\ (x = <<>> \/ isAssoc(Arr(x)))}}

\* ------------------------------------------------- arrayReplaceSanely run

InitMerge ==
    /\ array \in Trees
    /\ array1 \in Trees
    /\ newArray = NoValue
    /\ mpc = "input"
    /\ wgUploadWizardConfig = Arr(<<>>)
    /\ mergedConfig = FALSE
    /\ urlConfig = Arr(<<>>)
    /\ ret = NoValue
    /\ lastCall = "none"
    /\ siteConfig = Arr(<<>>)
    /\ LicenseIdle

\* Config::arrayReplaceSanely( $array, $array1 )
Merge ==
    /\ mpc = "input"
    /\ newArray' = arrayReplaceSanely(array, array1)
    /\ mpc' = "merged"
    /\ UNCHANGED <<array, array1, configVars, licenseVars>>

\* Config::arrayReplaceSanely( $array, $array )
MergeSelf ==
    /\ mpc = "input"
    /\ newArray' = arrayReplaceSanely(array, array)
    /\ mpc' = "self"
    /\ UNCHANGED <<array, array1, configVars, licenseVars>>

NextMerge == Merge \/ MergeSelf

SpecMerge == InitMerge /\ [][NextMerge]_vars

Returned == mpc = "merged" /\ newArray.t = "array"

\* a scalar or a positional (integer-indexed, possibly empty) sequence
ScalarOrPositional(v) == ~(v.t = "array" /\ isAssoc(v))
Associative(v) == v.t = "array" /\ isAssoc(v)

\* C2: every key of $array that $array1 also has and whose $array value is a
\* scalar or a positional sequence carries $array1's value verbatim in the
\* result of arrayReplaceSanely.
C2_RightBias ==
    Returned =>
        \A i \in 1..Len(array.a) :
            LET k == array.a[i].k IN
            (array_key_exists(k, array1) /\ ScalarOrPositional(array.a[i].v))
                => /\ array_key_exists(k, newArray)
                   /\ Get(newArray, k) = Get(array1, k)

\* C3: at every key where both $array and $array1 hold an associative array,
\* the result holds arrayReplaceSanely of the two values.
C3_RecursiveMerge ==
    Returned =>
        \A i \in 1..Len(array.a) :
            LET k == array.a[i].k IN
            (/\ array_key_exists(k, array1)
             /\ Associative(array.a[i].v)
             /\ Associative(Get(array1, k)))
                => /\ array_key_exists(k, newArray)
                   /\ Get(newArray, k) = arrayReplaceSanely(array.a[i].v, Get(array1, k))

\* C4: the result's keys are $array's keys in $array's order followed by the
\* keys only $array1 has in $array1's order, each under its original key.
C4_KeyOrder ==
    Returned =>
        array_keys(newArray) = array_keys(array) \o array_keys(array_diff_key(array1, array))

\* C6: arrayReplaceSanely( x, x ) is x.
C6_Idempotent ==
    mpc = "self" => newArray = array

\* The four statements above restricted to arrays whose keys, at every depth
\* the merge reaches, are all strings (array_merge then renumbers nothing).
RECURSIVE StringKeyed(_)
StringKeyed(v) ==
    v.t = "array" /\ isAssoc(v) =>
        \A i \in 1..Len(v.a) : ~v.a[i].k.int /\ StringKeyed(v.a[i].v)

StringKeyedInputs == StringKeyed(array) /\ StringKeyed(array1)

StringKeyed_RightBias == StringKeyedInputs => C2_RightBias
StringKeyed_RecursiveMerge == StringKeyedInputs => C3_RecursiveMerge
StringKeyed_KeyOrder == StringKeyedInputs => C4_KeyOrder
StringKeyed_Idempotent == StringKeyedInputs => C6_Idempotent

\* ------------------------------------------------------- Config::getConfig

NULL == "(null)"

Sz == Scalar("z")
Sw == Scalar("w")
Su == Scalar("u")
KDebug == StrKey("debug")
KDefaults == StrKey("defaults")
KDescription == StrKey("description")
KLat == StrKey("lat")
KFields == StrKey("fields")
KId == StrKey("id")

\* UploadWizard.config.php, as included by Config::getDefaultConfig
getDefaultConfig ==
    Arr(<<Entry(KDebug, Sx),
          Entry(KDefaults, Arr(<<Entry(KDescription, Sx), Entry(KLat, Sx)>>)),
          Entry(KFields, L2)>>)

\* $wgUploadWizardConfig as the site's settings leave it before the first call
SiteConfigs ==
    { Arr(<<>>),
      Arr(<<Entry(KDebug, Sy)>>),
      Arr(<<Entry(KDefaults, Arr(<<Entry(KLat, Sy)>>))>>),
      Arr(<<Entry(KFields, Arr(<<Entry(IntKey(0), Sy)>>)), Entry(KId, Sy)>>),
      Arr(<<Entry(KDefaults, Sy)>>) }

\* Campaign::newFromName( $name ): found (FALSE for the PHP false), and the
\* found campaign's getIsEnabled() and getParsedConfig()
CampaignNames == {"art", "wlm", "off", "gone", "odd"}

Campaign_newFromName(name) ==
    CASE name = "art" -> [found |-> TRUE, enabled |-> TRUE,
                          config |-> Arr(<<Entry(KDebug, Sz),
                                           Entry(KDefaults, Arr(<<Entry(KDescription, Sz)>>))>>)]
      [] name = "wlm" -> [found |-> TRUE, enabled |-> TRUE,
                          config |-> Arr(<<Entry(KFields, Arr(<<Entry(IntKey(0), Sz)>>))>>)]
      [] name = "off" -> [found |-> TRUE, enabled |-> FALSE,
                          config |-> Arr(<<Entry(KDebug, Sw), Entry(KId, Sw)>>)]
      [] name = "odd" -> [found |-> TRUE, enabled |-> TRUE,
                          config |-> Arr(<<Entry(KDefaults, Sz)>>)]
      [] OTHER        -> [found |-> FALSE, enabled |-> FALSE, config |-> Arr(<<>>)]

getCampaignConfigOfDisabled(campaignName) ==
    IF campaignName # NULL /\ Campaign_newFromName(campaignName).found
    THEN Campaign_newFromName(campaignName).config
    ELSE Arr(<<>>)

getCampaignConfig(campaignName) ==
    IF campaignName # NULL
    THEN LET campaign == Campaign_newFromName(campaignName) IN
         IF campaign.found /\ campaign.enabled
         THEN campaign.config
         ELSE Arr(<<>>)
    ELSE Arr(<<>>)

\* lines 85-91: $wgUploadWizardConfig after the once-only defaults+site merge
MergedDefaults(cfg, merged) ==
    IF ~merged THEN arrayReplaceSanely(getDefaultConfig, cfg) ELSE cfg

\* lines 93-98: $wgUploadWizardConfig after the campaign layering
Layered(cfg, campaignName) ==
    IF campaignName # NULL
    THEN arrayReplaceSanely(cfg, getCampaignConfig(campaignName))
    ELSE cfg

\* what getConfig( $campaignName ) returns (or throws) from the given state
getConfigReturn(cfg, merged, url, campaignName) ==
    LET m == MergedDefaults(cfg, merged) IN
    IF m.t = "error" THEN TypeError
    ELSE LET l == Layered(m, campaignName) IN
         IF l.t = "error" THEN TypeError
         ELSE array_replace_recursive(l, url)

InitConfig ==
    /\ wgUploadWizardConfig \in SiteConfigs
    /\ siteConfig = wgUploadWizardConfig
    /\ mergedConfig = FALSE
    /\ urlConfig = Arr(<<>>)
    /\ ret = NoValue
    /\ lastCall = "none"
    /\ array = Arr(<<>>)
    /\ array1 = Arr(<<>>)
    /\ newArray = NoValue
    /\ mpc = "input"
    /\ LicenseIdle

\* Config::getConfig( $campaignName ). A TypeError leaves the assignment it
\* interrupts undone: thrown by the first merge, neither the global nor the
\* flag changes; thrown by the campaign layering, the first merge stays.
getConfig(campaignName) ==
    LET m == MergedDefaults(wgUploadWizardConfig, mergedConfig)
        l == Layered(m, campaignName)
    IN /\ lastCall' = campaignName
       /\ ret' = getConfigReturn(wgUploadWizardConfig, mergedConfig, urlConfig, campaignName)
       /\ IF m.t = "error"
          THEN UNCHANGED <<wgUploadWizardConfig, mergedConfig>>
          ELSE /\ mergedConfig' = TRUE
               /\ wgUploadWizardConfig' = IF l.t = "error" THEN m ELSE l
       /\ UNCHANGED <<urlConfig, siteConfig, mergeVars, licenseVars>>

\* URL settings: a scalar, an empty array or an associative array for a key
\* the lower layers hold, a scalar for a key they need not hold
UrlValues == {Su, Arr(<<>>), Arr(<<Entry(KDescription, Su)>>)}
UrlSettings ==
    [name : {KDebug, KDefaults}, val : UrlValues] \cup {[name |-> KId, val |-> Su]}

\* Config::setUrlSetting( $name, $value )
setUrlSetting(name, val) ==
    /\ urlConfig' = Arr(SetEntries(urlConfig.a, name, val))
    /\ lastCall' = "setUrlSetting"
    /\ UNCHANGED <<wgUploadWizardConfig, mergedConfig, ret, siteConfig, mergeVars, licenseVars>>

NextConfig ==
    \/ \E c \in CampaignNames \cup {NULL} : getConfig(c)
    \/ \E u \in UrlSettings : setUrlSetting(u.name, u.val)

SpecConfig == InitConfig /\ [][NextConfig]_vars

IsGetConfig == lastCall \in CampaignNames \cup {NULL}

\* C1: every getConfig call returns the defaults+site merge layered with that
\* call's own campaign configuration only, then with the URL settings: what
\* an earlier call's campaign set is not in a later call's result.
C1_PerCallLayering ==
    IsGetConfig => ret = getConfigReturn(siteConfig, FALSE, urlConfig, lastCall)

NotFoundOrDisabled(campaignName) ==
    /\ campaignName \in CampaignNames
    /\ ~(Campaign_newFromName(campaignName).found
         /\ Campaign_newFromName(campaignName).enabled)

\* C7: a getConfig call naming a campaign that is not found or not enabled
\* returns (or throws) what getConfig( null ) would from the same state, and
\* leaves $wgUploadWizardConfig as the defaults+site merge step left it.
C7_UnknownCampaignNoOp ==
    [][NotFoundOrDisabled(lastCall') =>
         /\ ret' = getConfigReturn(wgUploadWizardConfig, mergedConfig, urlConfig, NULL)
         /\ LET m == MergedDefaults(wgUploadWizardConfig, mergedConfig) IN
            wgUploadWizardConfig' = IF m.t = "error" THEN wgUploadWizardConfig ELSE m
         /\ (MergedDefaults(wgUploadWizardConfig, mergedConfig).t = "array"
                => ret'.t = "array")]_vars

\* getConfig has returned for a disabled campaign whose own configuration
\* differs from what is stored, after an earlier call for an enabled campaign
\* and with URL settings
C7_Witness ==
    /\ lastCall = "off"
    /\ ret.t = "array"
    /\ mergedConfig
    /\ urlConfig # Arr(<<>>)
    /\ array_key_exists(KDebug, wgUploadWizardConfig)
    /\ Get(wgUploadWizardConfig, KDebug) = Sz
    /\ Get(ret, KDebug) # Sw

\* ------------------------------------------------------ uw.LicenseGroup.js

Undefined == [defined |-> FALSE, v |-> <<>>]
Defined(x) == [defined |-> TRUE, v |-> x]

\* Array.prototype.join
RECURSIVE join(_, _)
join(strings, separator) ==
    IF strings = <<>> THEN <<>>
    ELSE IF Len(strings) = 1 THEN strings[1]
    ELSE strings[1] \o separator \o join(Tail(strings), separator)

\* Array.prototype.unshift of each element of `items`, in order
RECURSIVE unshiftEach(_, _)
unshiftEach(templates, items) ==
    IF items = <<>> THEN templates
    ELSE unshiftEach(<<Head(items)>> \o templates, Tail(items))

\* license names and template names
CC == <<"c", "c">>
PD == <<"p", "d">>
CU == <<"c", "u">>
GH == <<"g", "h">>
TBy == <<"b", "y">>
TSa == <<"s", "a">>
TPre == <<"p", "r", "e">>
TPended == <<"p", "e", "n">>
TOwn == <<"o", "w", "n">>
TSelf == <<"s", "e", "l", "f">>

\* mw.UploadWizard.config.licenses: 'cc' declares two templates, 'pd' and
\* 'cu' none, 'cu' has a text input of its own; 'gh' is not a license
KnownLicenses == {CC, PD, CU}

licenses(name) ==
    CASE name = CC -> [templates |-> Defined(<<TBy, TSa>>), special |-> ""]
      [] name = PD -> [templates |-> Undefined, special |-> ""]
      [] name = CU -> [templates |-> Undefined, special |-> "input"]

getLicenseInfo(name) == [name |-> name, props |-> licenses(name)]

getTemplates(name) ==
    LET licenseInfo == getLicenseInfo(name) IN
    IF ~licenseInfo.props.templates.defined
    THEN <<licenseInfo.name>>
    ELSE licenseInfo.props.templates.v

getLicenceWikiText(name) ==
    LET templates0 == getTemplates(name)
        templates1 == IF config.prependTemplates.defined
                      THEN unshiftEach(templates0, config.prependTemplates.v)
                      ELSE templates0
        templates2 == IF config.template.defined
                      THEN <<join(<<config.template.v>> \o templates1, <<"|">>)>>
                      ELSE templates1
        wikiTexts == [i \in 1..Len(templates2) |-> <<"{", "{">> \o templates2[i] \o <<"}", "}">>]
    IN join(wikiTexts, <<>>)

MaxPrepend == 2

PrependNames == {TPre, TPended, TOwn}
PrependLists == UNION {[1..n -> PrependNames] : n \in 0..MaxPrepend}

MarkupConfigs ==
    [licenses : {<<CC, PD, CU>>},
     special : {""},
     template : {Undefined, Defined(TSelf)},
     prependTemplates : {Undefined} \cup {Defined(l) : l \in PrependLists}]

ConfigIdle ==
    /\ array = Arr(<<>>)
    /\ array1 = Arr(<<>>)
    /\ newArray = NoValue
    /\ mpc = "input"
    /\ wgUploadWizardConfig = Arr(<<>>)
    /\ mergedConfig = FALSE
    /\ urlConfig = Arr(<<>>)
    /\ ret = NoValue
    /\ lastCall = "none"
    /\ siteConfig = Arr(<<>>)

InitMarkup ==
    /\ config \in MarkupConfigs
    /\ type = "radio"
    /\ selected = <<>>
    /\ customInputs = <<>>
    /\ result = <<>>
    /\ wikiText = <<>>
    /\ lastOp = <<>>
    /\ order = <<>>
    /\ ConfigIdle

\* a call of uw.LicenseGroup.prototype.getLicenceWikiText( name )
ExpandLicence(name) ==
    /\ wikiText' = getLicenceWikiText(name)
    /\ lastOp' = <<"getLicenceWikiText", name>>
    /\ UNCHANGED <<config, type, selected, customInputs, result, order, mergeVars, configVars>>

NextMarkup == \E name \in KnownLicenses : ExpandLicence(name)

SpecMarkup == InitMarkup /\ [][NextMarkup]_vars

Expanded == lastOp # <<>> /\ lastOp[1] = "getLicenceWikiText"

\* "{{t1}}{{t2}}...": each name its own invocation, no separator
Invocations(names) ==
    join([i \in 1..Len(names) |-> <<"{", "{">> \o names[i] \o <<"}", "}">>], <<>>)

\* the license's own templates: those it declares, else its identifier
OwnTemplates(name) ==
    IF licenses(name).templates.defined THEN licenses(name).templates.v ELSE <<name>>

\* C8: with prependTemplates [p1, ..., pn], n >= 1, and no wrapper template,
\* getLicenceWikiText returns "{{p1}}...{{pn}}" followed by the license's own
\* templates, each as "{{t}}".
C8_PrependInOrder ==
    (/\ Expanded
     /\ ~config.template.defined
     /\ config.prependTemplates.defined
     /\ Len(config.prependTemplates.v) >= 1)
        => wikiText = Invocations(config.prependTemplates.v \o OwnTemplates(lastOp[2]))

\* C10: with a wrapper template, getLicenceWikiText returns one invocation
\* "{{W}}", W the '|'-join of the wrapper, the prependTemplates and the
\* license's own templates in that order; without one, the separate
\* invocations "{{t}}" with no separator.
C10_WrapperJoin ==
    Expanded =>
        LET prepended == IF config.prependTemplates.defined
                         THEN config.prependTemplates.v ELSE <<>>
        IN IF config.template.defined
           THEN wikiText = <<"{", "{">>
                           \o join(<<config.template.v>> \o prepended \o OwnTemplates(lastOp[2]),
                                   <<"|">>)
                           \o <<"}", "}">>
           ELSE LET names == prepended \o OwnTemplates(lastOp[2]) IN
                \E f \in Permutations(1..Len(names)) :
                    wikiText = Invocations([i \in 1..Len(names) |-> names[f[i]]])

\* ------------------------------------------- the license group as a widget

\* JavaScript values of a selection: true, false, or a string
JsTrue == [t |-> "boolean", b |-> TRUE, s |-> <<>>]
JsFalse == [t |-> "boolean", b |-> FALSE, s |-> <<>>]
JsString(str) == [t |-> "string", b |-> FALSE, s |-> str]

MaxValues == 2

Texts == {<<>>, <<"t">>, <<" ", "t", " ">>}

\* group configurations: one with an unknown license and a license that has
\* a text input of its own, one whose every license gets a text input
WidgetConfigs ==
    { [licenses |-> <<CC, CU, GH, PD>>, special |-> "",
       template |-> Undefined, prependTemplates |-> Undefined],
      [licenses |-> <<CU, PD>>, special |-> "custom",
       template |-> Defined(TSelf), prependTemplates |-> Defined(<<TOwn>>)] }

\* createRadioGroup / createCheckboxGroup: one option per known license, in
\* the order of config.licenses
Items(cfg) == SelectSeq(cfg.licenses, LAMBDA name : name \in KnownLicenses)

ItemNames(cfg) == {Items(cfg)[i] : i \in 1..Len(Items(cfg))}

\* createLabel: the licenses that get a text input (createInput)
InputNames(cfg) ==
    {name \in ItemNames(cfg) : cfg.special = "custom" \/ licenses(name).special = "input"}

InitWidget ==
    /\ config \in WidgetConfigs
    /\ type \in {"radio", "checkbox"}
    /\ selected = [name \in ItemNames(config) |-> FALSE]
    /\ customInputs = [name \in InputNames(config) |-> <<>>]
    /\ result = <<>>
    /\ wikiText = <<>>
    /\ lastOp = <<>>
    /\ order = <<>>
    /\ ConfigIdle

\* the selected options, in the order of the group's items
SelectedItemsInSelectionOrder == order

SelectedItems == SelectSeq(Items(config), LAMBDA name : selected[name])

\* !this.customInputs[ name ] || this.customInputs[ name ].getValue()
valueFor(name) ==
    IF name \notin DOMAIN customInputs THEN JsTrue ELSE JsString(customInputs[name])

getValueOfEveryItem ==
    [i \in 1..Len(Items(config)) |->
        [name |-> Items(config)[i], value |-> valueFor(Items(config)[i])]]

getValue ==
    IF type = "radio"
    THEN IF SelectedItems = <<>> THEN <<>>
         ELSE <<[name |-> SelectedItems[1], value |-> valueFor(SelectedItems[1])]>>
    ELSE [i \in 1..Len(SelectedItems) |->
            [name |-> SelectedItems[i], value |-> valueFor(SelectedItems[i])]]

\* the user clicks an option: a radio group selects it alone, a checkbox
\* group toggles it
Click(name) ==
    /\ name \in ItemNames(config)
    /\ selected' = IF type = "radio"
                   THEN [n \in ItemNames(config) |-> n = name]
                   ELSE [selected EXCEPT ![name] = ~selected[name]]
    /\ order' = IF type = "radio" THEN <<name>>
                ELSE IF selected[name] THEN SelectSeq(order, LAMBDA n : n # name)
                ELSE Append(order, name)
    /\ lastOp' = <<"click", name>>
    /\ UNCHANGED <<config, type, customInputs, result, wikiText, mergeVars, configVars>>

\* the user edits a license's text input: the 'input' handler sets that
\* option selected exactly when the text is not empty
Input(name, text) ==
    /\ name \in DOMAIN customInputs
    /\ text # customInputs[name]
    /\ customInputs' = [customInputs EXCEPT ![name] = text]
    /\ selected' = [selected EXCEPT ![name] = (text # <<>>)]
    /\ order' = IF text = <<>> THEN SelectSeq(order, LAMBDA n : n # name)
                ELSE IF selected[name] THEN order
                ELSE Append(order, name)
    /\ lastOp' = <<"input", name>>
    /\ UNCHANGED <<config, type, result, wikiText, mergeVars, configVars>>

\* entries of a setValue argument: a known license with true, false or a
\* string, or the unknown license 'gh' with true
ValueEntries ==
    [name : KnownLicenses,
     value : {JsTrue, JsFalse, JsString(<<>>), JsString(<<"t">>)}]
        \cup {[name |-> GH, value |-> JsTrue]}

ValueMaps ==
    {m \in UNION {[1..n -> ValueEntries] : n \in 0..MaxValues} :
        \A i, j \in 1..Len(m) : i # j => m[i].name # m[j].name}

\* setValue's selectArray
selectArray(values) ==
    LET pushed(e) == \/ (e.value.t = "string" /\ e.name \in DOMAIN customInputs)
                     \/ e.value = JsTrue
        kept == SelectSeq(values, pushed)
    IN [i \in 1..Len(kept) |-> kept[i].name]

setValue(values) ==
    /\ customInputs' =
           [name \in DOMAIN customInputs |->
               IF \E i \in 1..Len(values) :
                      values[i].name = name /\ values[i].value.t = "string"
               THEN (CHOOSE e \in {values[i] : i \in 1..Len(values)} : e.name = name).value.s
               ELSE customInputs[name]]
    /\ LET names == selectArray(values) IN
       selected' =
           IF type = "radio"
           THEN [n \in ItemNames(config) |-> names # <<>> /\ n = names[1]]
           ELSE [n \in ItemNames(config) |-> \E i \in 1..Len(names) : names[i] = n]
    /\ LET names == SelectSeq(selectArray(values), LAMBDA n : n \in ItemNames(config)) IN
       order' = IF type = "radio"
                THEN IF selectArray(values) # <<>> /\ selectArray(values)[1] \in ItemNames(config)
                     THEN <<selectArray(values)[1]>> ELSE <<>>
                ELSE names
    /\ lastOp' = <<"setValue">>
    /\ UNCHANGED <<config, type, result, wikiText, mergeVars, configVars>>

\* result and wikiText hold what the latest call returned
GetValue ==
    /\ result' = getValue
    /\ wikiText' = <<>>
    /\ lastOp' = <<"getValue">>
    /\ UNCHANGED <<config, type, selected, customInputs, order, mergeVars, configVars>>

\* String.prototype.trim: leading and trailing white space removed
WhiteSpace == {" ", "\n"}

RECURSIVE trimStart(_)
trimStart(str) ==
    IF str # <<>> /\ Head(str) \in WhiteSpace THEN trimStart(Tail(str)) ELSE str

RECURSIVE trimEnd(_)
trimEnd(str) ==
    IF str # <<>> /\ str[Len(str)] \in WhiteSpace
    THEN trimEnd(SubSeq(str, 1, Len(str) - 1)) ELSE str

trim(str) == trimEnd(trimStart(str))

\* Object.keys( values ).map( ... ): one text per entry, in the entries'
\* order (license names are not integer-like, so the keys keep their
\* insertion order)
\* a property name that is a canonical array index ("0", "7", "12"; the
\* upper limit 2^32 - 2 is beyond any name considered here)
Digits == <<"0", "1", "2", "3", "4", "5", "6", "7", "8", "9">>
IsArrayIndex(name) ==
    /\ name # <<>>
    /\ \A i \in 1..Len(name) : \E d \in 1..10 : Digits[d] = name[i]
    /\ Len(name) > 1 => name[1] # "0"

RECURSIVE ToNumber(_)
ToNumber(name) ==
    IF name = <<>> THEN 0
    ELSE 10 * ToNumber(SubSeq(name, 1, Len(name) - 1))
         + (CHOOSE d \in 1..10 : Digits[d] = name[Len(name)]) - 1

\* Object.keys of the object getValue built: array-index names in ascending
\* numeric order, then the other names in the order they were inserted
Object_keys(values) ==
    LET names == [i \in 1..Len(values) |-> values[i].name]
        indices == SelectSeq(names, IsArrayIndex)
        others == SelectSeq(names, LAMBDA n : ~IsArrayIndex(n))
    IN SortSeq(indices, LAMBDA a, b : ToNumber(a) < ToNumber(b)) \o others

licenceTexts(values) ==
    LET keys == Object_keys(values) IN
    [i \in 1..Len(keys) |->
        LET v == (CHOOSE k \in 1..Len(values) : values[k].name = keys[i]) IN
        IF values[v].value.t = "string"
        THEN getLicenceWikiText(keys[i]) \o <<"\n">> \o trim(values[v].value.s)
        ELSE getLicenceWikiText(keys[i])]

getWikiTextUntrimmed == join(licenceTexts(getValue), <<>>)

getWikiText == trim(join(licenceTexts(getValue), <<>>))

\* a call of uw.LicenseGroup.prototype.getWikiText
GetWikiText ==
    /\ result' = getValue
    /\ wikiText' = getWikiText
    /\ lastOp' = <<"getWikiText">>
    /\ UNCHANGED <<config, type, selected, customInputs, order, mergeVars, configVars>>

NextWidget ==
    \/ \E name \in KnownLicenses : Click(name)
    \/ \E name \in KnownLicenses, text \in Texts : Input(name, text)
    \/ \E values \in ValueMaps : setValue(values)
    \/ GetValue
    \/ GetWikiText

SpecWidget == InitWidget /\ [][NextWidget]_vars

Got == lastOp = <<"getValue">>

\* C9 as stated: getValue's result has an entry only for a selected license,
\* each entry's value being true or a non-empty string.
C9_TrueOrNonEmptyString ==
    Got => \A i \in 1..Len(result) :
               /\ selected[result[i].name]
               /\ \/ result[i].value = JsTrue
                  \/ result[i].value.t = "string" /\ result[i].value.s # <<>>

\* C9 as amended: getValue's result has an entry only for a selected license,
\* each entry's value being true (the license has no text input) or the text
\* of the license's input, which is empty when the license was selected with
\* nothing typed; it is never false.
C9_TrueOrInputText ==
    Got => \A i \in 1..Len(result) :
               /\ result[i].name \in ItemNames(config)
               /\ selected[result[i].name]
               /\ result[i].value # JsFalse
               /\ IF result[i].name \in DOMAIN customInputs
                  THEN result[i].value = JsString(customInputs[result[i].name])
                  ELSE result[i].value = JsTrue

\* getValue has returned, in a group with an unselected option, an entry
\* that is true and an entry that carries typed text
C9_Witness ==
    /\ Got
    /\ \E n \in ItemNames(config) : ~selected[n]
    /\ \E i, j \in 1..Len(result) :
           /\ result[i].value = JsTrue
           /\ result[j].value = JsString(<<"t">>)

Rendered == lastOp = <<"getWikiText">>

\* the block of one selected license: its markup, then, only for a string
\* value, a newline and the text without its leading and trailing white space
Block(entry) ==
    LET markup == getLicenceWikiText(entry.name)
        text == entry.value.s
        first == CHOOSE i \in 1..(Len(text) + 1) :
                     /\ \A j \in 1..(i - 1) : text[j] \in WhiteSpace
                     /\ i <= Len(text) => text[i] \notin WhiteSpace
        last == CHOOSE i \in 0..Len(text) :
                     /\ \A j \in (i + 1)..Len(text) : text[j] \in WhiteSpace
                     /\ i >= 1 => text[i] \notin WhiteSpace
    IN IF entry.value.t = "string"
       THEN markup \o <<"\n">> \o SubSeq(text, first, last)
       ELSE markup

RECURSIVE Blocks(_)
Blocks(entries) ==
    IF entries = <<>> THEN <<>> ELSE Block(Head(entries)) \o Blocks(Tail(entries))

NoEdgeWhiteSpace(str) ==
    str # <<>> => (str[1] \notin WhiteSpace /\ str[Len(str)] \notin WhiteSpace)

\* C11: getWikiText returns the selected licenses' blocks one after the other
\* with nothing between them, less the white space at the two ends: a block
\* is the license's markup, followed for a string value by a newline and the
\* trimmed text; the result neither starts nor ends with white space.
C11_BlocksTrimmed ==
    Rendered =>
        /\ NoEdgeWhiteSpace(wikiText)
        /\ \E lead, trail \in 0..Len(Blocks(getValue)) :
               /\ lead + trail <= Len(Blocks(getValue))
               /\ \A j \in 1..lead : Blocks(getValue)[j] \in WhiteSpace
               /\ \A j \in 1..trail :
                      Blocks(getValue)[Len(Blocks(getValue)) + 1 - j] \in WhiteSpace
               /\ wikiText = SubSeq(Blocks(getValue), lead + 1, Len(Blocks(getValue)) - trail)

\* getWikiText has returned for a checkbox group with a license selected with
\* true, then one whose typed text has white space around it, then another
\* selected with true
C11_Witness ==
    /\ Rendered
    /\ type = "checkbox"
    /\ Len(getValue) = 3
    /\ getValue[1].value = JsTrue
    /\ getValue[2].value = JsString(<<" ", "t", " ">>)
    /\ wikiText = getLicenceWikiText(CC) \o getLicenceWikiText(CU) \o <<"\n", "t">>
                      \o getLicenceWikiText(PD)

\* where `sub` first occurs in `str` (0: nowhere)
Position(sub, str) ==
    LET at == {k \in 1..(Len(str) - Len(sub) + 1) : SubSeq(str, k, k + Len(sub) - 1) = sub}
    IN IF at = {} THEN 0 ELSE CHOOSE k \in at : \A m \in at : k <= m

\* in wikiText the block of license b comes before the block of license a
Precedes(b, a) ==
    /\ Position(getLicenceWikiText(b), wikiText) > 0
    /\ Position(getLicenceWikiText(b), wikiText) < Position(getLicenceWikiText(a), wikiText)

\* C12 as stated: in a checkbox group, the block of a license that was put
\* into the selection earlier precedes the block of one put into it later,
\* whatever their order in config.licenses.
C12_SelectionOrder ==
    (Rendered /\ type = "checkbox") =>
        \A i, j \in 1..Len(order) : i < j => Precedes(order[i], order[j])

\* C12 as amended: in a checkbox group, the blocks of the selected licenses
\* appear in the order of the licenses in config.licenses, whatever the order
\* in which they were put into the selection.
C12_ConfiguredOrder ==
    (Rendered /\ type = "checkbox") =>
        \A i, j \in 1..Len(Items(config)) :
            (i < j /\ selected[Items(config)[i]] /\ selected[Items(config)[j]])
                => Precedes(Items(config)[i], Items(config)[j])

\* getWikiText has returned for a checkbox group in which 'pd' was selected
\* before 'cc', which config.licenses lists first
C12_Witness ==
    /\ Rendered
    /\ type = "checkbox"
    /\ order = <<PD, CC>>
    /\ wikiText = getLicenceWikiText(CC) \o getLicenceWikiText(PD)

====
